---- MODULE Spec2Model ----
(***************************************************************************)
(* Model of the 5G package recommendation tool:                            *)
(*   grec5/recommendation_engine.py  RecommendationEngine                  *)
(*   grec5/api_server.py             RecommendationAPI (config update)     *)
(*                                                                         *)
(* Numbers.  Python ints and floats are modelled as exact rationals        *)
(* <<n, d>> in lowest terms with d > 0.  round(x, 2) is modelled as        *)
(* round-half-to-even on the exact value, which is what Python does on     *)
(* the value it holds; binary floating-point representation error is not   *)
(* modelled.                                                               *)
(*                                                                         *)
(* Dicts.  A Python dict is a function; `k in d` is k \in DOMAIN d and     *)
(* d.get(k, default) is Get(d, k, default).  user_needs is a sequence of   *)
(* <<key, value>> pairs with distinct keys: a dict in its iteration order. *)
(***************************************************************************)
EXTENDS Integers, Sequences, FiniteSets, TLC

\* ------------------------------------------------------------------------
\* Bounds of the model
\* ------------------------------------------------------------------------
MaxCatalog == 2

\* ------------------------------------------------------------------------
\* Exact rational arithmetic
\* ------------------------------------------------------------------------
Abs(n) == IF n < 0 THEN -n ELSE n

RECURSIVE GCD(_, _)
GCD(a, b) == IF b = 0 THEN a ELSE GCD(b, a % b)

Norm(n, d) ==
  LET s == IF d < 0 THEN -1 ELSE 1
      g == GCD(Abs(n), Abs(d))
  IN  <<(s * n) \div g, (s * d) \div g>>

R(n) == <<n, 1>>

Q(n, d) == Norm(n, d)

RAdd(x, y) == Norm(x[1] * y[2] + y[1] * x[2], x[2] * y[2])

RSub(x, y) == Norm(x[1] * y[2] - y[1] * x[2], x[2] * y[2])

RMul(x, y) == Norm(x[1] * y[1], x[2] * y[2])

RDiv(x, y) == Norm(x[1] * y[2], x[2] * y[1])

RLt(x, y) == x[1] * y[2] < y[1] * x[2]

RLe(x, y) == x[1] * y[2] <= y[1] * x[2]

RGt(x, y) == RLt(y, x)

RGe(x, y) == RLe(y, x)

RMin(x, y) == IF RLt(y, x) THEN y ELSE x

RMax(x, y) == IF RGt(y, x) THEN y ELSE x

RECURSIVE RSum(_)
RSum(s) == IF s = <<>> THEN R(0) ELSE RAdd(Head(s), RSum(Tail(s)))

\* round(x, 2)
Round2(x) ==
  LET a == x[1] * 100
      b == x[2]
      q == a \div b
      r == a % b
      n == IF 2 * r < b THEN q
           ELSE IF 2 * r > b THEN q + 1
           ELSE IF q % 2 = 0 THEN q ELSE q + 1
  IN  Norm(n, 100)

\* the number printed by the format specification .1f
Format1(x) ==
  LET a == x[1] * 10
      b == x[2]
      q == a \div b
      r == a % b
      n == IF 2 * r < b THEN q
           ELSE IF 2 * r > b THEN q + 1
           ELSE IF q % 2 = 0 THEN q ELSE q + 1
  IN  Norm(n, 10)

\* ------------------------------------------------------------------------
\* Dict helpers
\* ------------------------------------------------------------------------
EmptyDict == [k \in {} |-> R(0)]

Get(d, k, default) == IF k \in DOMAIN d THEN d[k] ELSE default

\* d.update(u)
DictUpdate(d, u) ==
  [k \in (DOMAIN d) \cup (DOMAIN u) |-> IF k \in DOMAIN u THEN u[k] ELSE d[k]]

\* recommendations[:n]
SliceTo(s, n) ==
  IF n >= 0
  THEN SubSeq(s, 1, IF n < Len(s) THEN n ELSE Len(s))
  ELSE SubSeq(s, 1, IF Len(s) + n > 0 THEN Len(s) + n ELSE 0)

\* ------------------------------------------------------------------------
\* RecommendationEngine
\* ------------------------------------------------------------------------
get_default_config ==
  [ score_weights |-> [usage_match |-> Q(7, 10), price_advantage |-> Q(3, 10)],
    thresholds |-> [budget_tolerance |-> Q(12, 10),
                    waste_penalty |-> Q(1, 10),
                    perfect_match_ratio |-> Q(15, 10)],
    max_recommendations |-> 10 ]

\* the user_needs.items() pairs whose key is in product_specs
MatchedNeeds(user_needs, product_specs) ==
  SelectSeq(user_needs, LAMBDA kv : kv[1] \in DOMAIN product_specs)

\* satisfaction scores without the cap of 2.0
calculate_satisfaction_scores_uncapped(user_needs, product_specs) ==
  LET m == MatchedNeeds(user_needs, product_specs)
  IN  [i \in 1..Len(m) |->
         IF RGt(m[i][2], R(0))
         THEN RDiv(product_specs[m[i][1]], m[i][2])
         ELSE R(1)]

calculate_satisfaction_scores(user_needs, product_specs) ==
  LET m == MatchedNeeds(user_needs, product_specs)
  IN  [i \in 1..Len(m) |->
         IF RGt(m[i][2], R(0))
         THEN RMin(RDiv(product_specs[m[i][1]], m[i][2]), R(2))
         ELSE R(1)]

calculate_waste_penalties(user_needs, product_specs) ==
  LET w == SelectSeq(user_needs,
             LAMBDA kv : /\ kv[1] \in DOMAIN product_specs
                         /\ RGt(kv[2], R(0))
                         /\ RGt(product_specs[kv[1]], kv[2]))
  IN  [i \in 1..Len(w) |->
         RDiv(RSub(product_specs[w[i][1]], w[i][2]), w[i][2])]

\* the final usage score from the totals instead of the means
compute_final_usage_score_total(cfg, scores, penalties) ==
  LET final_score == RSub(RSum(scores),
                          RMul(RSum(penalties), cfg.thresholds.waste_penalty))
  IN  RMax(final_score, R(0))

compute_final_usage_score(cfg, scores, penalties) ==
  LET avg_score == IF scores # <<>> THEN RDiv(RSum(scores), R(Len(scores)))
                   ELSE R(0)
      avg_penalty == IF penalties # <<>>
                     THEN RDiv(RSum(penalties), R(Len(penalties)))
                     ELSE R(0)
      final_score == RSub(avg_score,
                          RMul(avg_penalty, cfg.thresholds.waste_penalty))
  IN  RMax(final_score, R(0))

calculate_usage_score(cfg, user_needs, product_specs) ==
  compute_final_usage_score(cfg,
    calculate_satisfaction_scores(user_needs, product_specs),
    calculate_waste_penalties(user_needs, product_specs))

\* calculate_price_score with the quotient inverted
calculate_price_score_inverted(user_budget, product_price) ==
  IF RLe(product_price, R(0)) THEN R(0)
  ELSE RDiv(product_price, user_budget)

\* calculate_price_score without its `product_price <= 0` guard
calculate_price_score_unguarded(user_budget, product_price) ==
  IF product_price = R(0) THEN R(0)
  ELSE RDiv(user_budget, product_price)

calculate_price_score(user_budget, product_price) ==
  IF RLe(product_price, R(0)) THEN R(0)
  ELSE RDiv(user_budget, product_price)

\* check_basic_requirements without its price check
check_basic_requirements_no_price(cfg, user_needs, product_specs, user_budget, product_price) ==
  \A i \in 1..Len(user_needs) :
    user_needs[i][1] \in DOMAIN product_specs
      => ~ RLt(product_specs[user_needs[i][1]], user_needs[i][2])

check_basic_requirements(cfg, user_needs, product_specs, user_budget, product_price) ==
  IF RGt(product_price, RMul(user_budget, cfg.thresholds.budget_tolerance))
  THEN FALSE
  ELSE \A i \in 1..Len(user_needs) :
         user_needs[i][1] \in DOMAIN product_specs
           => ~ RLt(product_specs[user_needs[i][1]], user_needs[i][2])

\* a weighted score computed from the scores already rounded for display
calculate_weighted_score_rounded(cfg, usage_score, price_score) ==
  RAdd(RMul(Round2(usage_score), cfg.score_weights.usage_match),
       RMul(Round2(price_score), cfg.score_weights.price_advantage))

calculate_weighted_score(cfg, usage_score, price_score) ==
  RAdd(RMul(usage_score, cfg.score_weights.usage_match),
       RMul(price_score, cfg.score_weights.price_advantage))

\* product.get("specs", {})
SpecsOf(product) == Get(product, "specs", EmptyDict)

\* product_specs.get("price", product.get("price", 0))
\* a missing price read as an unaffordable one instead of 0
PriceOf_unaffordable(product) ==
  Get(SpecsOf(product), "price", Get(product, "price", R(1000000)))

PriceOf(product) ==
  Get(SpecsOf(product), "price", Get(product, "price", R(0)))

\* A reason clause stands for one formatted string of the reason list:
\* kind names the f-string used, key/value/amount the numbers it prints.
Clause(kind, key, value, amount) ==
  [kind |-> kind, key |-> key, value |-> value, amount |-> amount]

\* need reasons that read an absent attribute as 0
analyze_need_match_reasons_absent_as_zero(cfg, user_needs, product_specs) ==
  LET m == SelectSeq(user_needs,
             LAMBDA kv : RGe(Get(product_specs, kv[1], R(0)), kv[2]))
  IN  [i \in 1..Len(m) |->
         LET product_value == Get(product_specs, m[i][1], R(0))
             user_value == m[i][2]
             perfect_match_threshold ==
               RMul(user_value, cfg.thresholds.perfect_match_ratio)
         IN  IF RLe(product_value, perfect_match_threshold)
             THEN Clause("fully_satisfies", m[i][1], product_value, user_value)
             ELSE Clause("surplus", m[i][1], product_value,
                         Format1(RSub(product_value, user_value)))]

analyze_need_match_reasons(cfg, user_needs, product_specs) ==
  LET m == SelectSeq(user_needs,
             LAMBDA kv : /\ kv[1] \in DOMAIN product_specs
                         /\ RGe(product_specs[kv[1]], kv[2]))
  IN  [i \in 1..Len(m) |->
         LET product_value == product_specs[m[i][1]]
             user_value == m[i][2]
             perfect_match_threshold ==
               RMul(user_value, cfg.thresholds.perfect_match_ratio)
         IN  IF RLe(product_value, perfect_match_threshold)
             THEN Clause("fully_satisfies", m[i][1], product_value, user_value)
             ELSE Clause("surplus", m[i][1], product_value,
                         Format1(RSub(product_value, user_value)))]

\* price reasons with the default tolerance 1.2 written into the comparison
analyze_price_reasons_fixed_tolerance(cfg, user_budget, product_price) ==
  IF RLe(product_price, user_budget)
  THEN LET savings == RSub(user_budget, product_price)
       IN  IF RGe(savings, R(20))
           THEN <<Clause("saves", "price", product_price, savings)>>
           ELSE <<Clause("within_budget", "price", product_price, R(0))>>
  ELSE IF RLe(product_price, RMul(user_budget, Q(6, 5)))
  THEN <<Clause("over_budget_good_value", "price", product_price,
                RSub(product_price, user_budget))>>
  ELSE <<>>

\* price reasons that never report the savings
analyze_price_reasons_no_savings(cfg, user_budget, product_price) ==
  IF RLe(product_price, user_budget)
  THEN <<Clause("within_budget", "price", product_price, R(0))>>
  ELSE IF RLe(product_price,
              RMul(user_budget, cfg.thresholds.budget_tolerance))
  THEN <<Clause("over_budget_good_value", "price", product_price,
                RSub(product_price, user_budget))>>
  ELSE <<>>

analyze_price_reasons(cfg, user_budget, product_price) ==
  IF RLe(product_price, user_budget)
  THEN LET savings == RSub(user_budget, product_price)
       IN  IF RGe(savings, R(20))
           THEN <<Clause("saves", "price", product_price, savings)>>
           ELSE <<Clause("within_budget", "price", product_price, R(0))>>
  ELSE IF RLe(product_price,
              RMul(user_budget, cfg.thresholds.budget_tolerance))
  THEN <<Clause("over_budget_good_value", "price", product_price,
                RSub(product_price, user_budget))>>
  ELSE <<>>

\* the reasons joined with the price reasons first
generate_match_reason_price_first(cfg, user_needs, user_budget, product) ==
  analyze_price_reasons(cfg, user_budget, PriceOf(product))
    \o analyze_need_match_reasons(cfg, user_needs, SpecsOf(product))

\* the reasons in the order they are joined by the separator
generate_match_reason(cfg, user_needs, user_budget, product) ==
  analyze_need_match_reasons(cfg, user_needs, SpecsOf(product))
    \o analyze_price_reasons(cfg, user_budget, PriceOf(product))

\* Optional[Dict]: <<>> stands for None, <<r>> for the recommendation r
evaluate_single_product(cfg, user_needs, user_budget, product) ==
  LET product_specs == SpecsOf(product)
      product_price == PriceOf(product)
  IN  IF ~ check_basic_requirements(cfg, user_needs, product_specs,
                                    user_budget, product_price)
      THEN <<>>
      ELSE LET usage_score ==
                 calculate_usage_score(cfg, user_needs, product_specs)
               price_score == calculate_price_score(user_budget, product_price)
               final_score ==
                 calculate_weighted_score(cfg, usage_score, price_score)
           IN  << [ product |-> product,
                    score |-> Round2(final_score),
                    usage_score |-> Round2(usage_score),
                    price_score |-> Round2(price_score),
                    match_reason |-> generate_match_reason(cfg, user_needs,
                                       user_budget, product) ] >>

\* a descending sort that puts a later element before its equals
RECURSIVE InsertByScore_unstable(_, _)
InsertByScore_unstable(sorted, r) ==
  IF sorted = <<>> THEN <<r>>
  ELSE IF RGt(Head(sorted).score, r.score)
       THEN <<Head(sorted)>> \o InsertByScore_unstable(Tail(sorted), r)
       ELSE <<r>> \o sorted

\* list.sort(key=score, reverse=True): stable, equal scores keep their order
RECURSIVE InsertByScore(_, _)
InsertByScore(sorted, r) ==
  IF sorted = <<>> THEN <<r>>
  ELSE IF RGe(Head(sorted).score, r.score)
       THEN <<Head(sorted)>> \o InsertByScore(Tail(sorted), r)
       ELSE <<r>> \o sorted

RECURSIVE SortByScore(_)
SortByScore(recs) ==
  IF recs = <<>> THEN <<>>
  ELSE InsertByScore(SortByScore(SubSeq(recs, 1, Len(recs) - 1)),
                     recs[Len(recs)])

\* the slice taken before the sort
sort_and_limit_recommendations_slice_first(cfg, recs) ==
  SortByScore(SliceTo(recs, cfg.max_recommendations))

sort_and_limit_recommendations(cfg, recs) ==
  SliceTo(SortByScore(recs), cfg.max_recommendations)

\* the list built by the loop of recommend over products[1..n]
RECURSIVE Evaluated(_, _, _, _, _)
Evaluated(cfg, user_needs, user_budget, prods, n) ==
  IF n = 0 THEN <<>>
  ELSE Evaluated(cfg, user_needs, user_budget, prods, n - 1)
         \o evaluate_single_product(cfg, user_needs, user_budget, prods[n])

recommend(cfg, user_needs, user_budget, prods) ==
  sort_and_limit_recommendations(cfg,
    Evaluated(cfg, user_needs, user_budget, prods, Len(prods)))

\* ------------------------------------------------------------------------
\* RecommendationEngine.analyze_no_match_reason
\* An analysis is the dict {over_budget_products, insufficient_specs,
\* suggestions}; insufficient_specs is a sequence of <<key, product list>>
\* pairs (a dict in the order its keys were inserted); a suggestion stands
\* for one formatted string: kind names the f-string, key/amount what it
\* prints.
\* ------------------------------------------------------------------------
\* the over-budget test on the price alone
is_over_budget_but_specs_satisfy_price_only(cfg, product_specs, user_needs, product_price, user_budget) ==
  RGt(product_price, RMul(user_budget, cfg.thresholds.budget_tolerance))

\* the over-budget test with absent attributes skipped instead of read as 0
is_over_budget_but_specs_satisfy_skip_absent(cfg, product_specs, user_needs, product_price, user_budget) ==
  LET specs_satisfy ==
        \A i \in 1..Len(user_needs) :
          user_needs[i][1] \in DOMAIN product_specs =>
            RGe(product_specs[user_needs[i][1]], user_needs[i][2])
      budget_tolerance == RMul(user_budget, cfg.thresholds.budget_tolerance)
  IN  specs_satisfy /\ RGt(product_price, budget_tolerance)

is_over_budget_but_specs_satisfy(cfg, product_specs, user_needs, product_price, user_budget) ==
  LET specs_satisfy ==
        \A i \in 1..Len(user_needs) :
          RGe(Get(product_specs, user_needs[i][1], R(0)), user_needs[i][2])
      budget_tolerance == RMul(user_budget, cfg.thresholds.budget_tolerance)
  IN  specs_satisfy /\ RGt(product_price, budget_tolerance)

\* a new key created with the product already in its list, then the append
AppendUnderKey_twice(insufficient_specs, need_key, product) ==
  IF \E j \in 1..Len(insufficient_specs) : insufficient_specs[j][1] = need_key
  THEN [j \in 1..Len(insufficient_specs) |->
          IF insufficient_specs[j][1] = need_key
          THEN <<need_key, Append(insufficient_specs[j][2], product)>>
          ELSE insufficient_specs[j]]
  ELSE Append(insufficient_specs, <<need_key, <<product, product>> >>)

\* insufficient_specs[need_key].append(product), the key created if missing
AppendUnderKey(insufficient_specs, need_key, product) ==
  IF \E j \in 1..Len(insufficient_specs) : insufficient_specs[j][1] = need_key
  THEN [j \in 1..Len(insufficient_specs) |->
          IF insufficient_specs[j][1] = need_key
          THEN <<need_key, Append(insufficient_specs[j][2], product)>>
          ELSE insufficient_specs[j]]
  ELSE Append(insufficient_specs, <<need_key, <<product>> >>)

\* the loop of _check_insufficient_specs over user_needs[1..n]
RECURSIVE InsufficientFold(_, _, _, _, _)
InsufficientFold(insufficient_specs, product_specs, user_needs, product, n) ==
  IF n = 0 THEN insufficient_specs
  ELSE LET before == InsufficientFold(insufficient_specs, product_specs,
                                      user_needs, product, n - 1)
       IN  IF RLt(Get(product_specs, user_needs[n][1], R(0)), user_needs[n][2])
           THEN AppendUnderKey(before, user_needs[n][1], product)
           ELSE before

check_insufficient_specs(cfg, product_specs, product_price, user_needs, user_budget, analysis, product) ==
  LET budget_tolerance == RMul(user_budget, cfg.thresholds.budget_tolerance)
  IN  IF RLe(product_price, budget_tolerance)
      THEN [analysis EXCEPT !.insufficient_specs =
              InsufficientFold(@, product_specs, user_needs, product,
                               Len(user_needs))]
      ELSE analysis

\* the loop of _analyze_product_mismatch over prods[1..n]
RECURSIVE analyze_product_mismatch(_, _, _, _, _, _)
analyze_product_mismatch(cfg, prods, user_needs, user_budget, analysis, n) ==
  IF n = 0 THEN analysis
  ELSE LET before == analyze_product_mismatch(cfg, prods, user_needs,
                                              user_budget, analysis, n - 1)
           product == prods[n]
           product_specs == SpecsOf(product)
           product_price == PriceOf(product)
           marked ==
             IF is_over_budget_but_specs_satisfy(cfg, product_specs,
                  user_needs, product_price, user_budget)
             THEN [before EXCEPT !.over_budget_products = Append(@, product)]
             ELSE before
       IN  check_insufficient_specs(cfg, product_specs, product_price,
                                    user_needs, user_budget, marked, product)

Suggestion(kind, key, amount) == [kind |-> kind, key |-> key, amount |-> amount]

\* min(...) and max(...) over a non-empty sequence of numbers
RECURSIVE MinOf(_)
MinOf(s) == IF Len(s) = 1 THEN s[1] ELSE RMin(s[1], MinOf(Tail(s)))

RECURSIVE MaxOf(_)
MaxOf(s) == IF Len(s) = 1 THEN s[1] ELSE RMax(s[1], MaxOf(Tail(s)))

\* the suggestions without those about the needs
generate_improvement_suggestions_budget_only(analysis, user_needs) ==
  LET over == analysis.over_budget_products
      short == analysis.insufficient_specs
      price_part ==
        IF over # <<>>
        THEN << Suggestion("raise_budget", "price",
                  MinOf([i \in 1..Len(over) |-> PriceOf(over[i])])) >>
        ELSE <<>>
      spec_part ==
        [j \in 1..Len(short) |->
           Suggestion("lower_need", short[j][1],
             MaxOf([i \in 1..Len(short[j][2]) |->
                      Get(SpecsOf(short[j][2][i]), short[j][1], R(0))]))]
  IN  [analysis EXCEPT !.suggestions = @ \o price_part]

\* the budget suggestion naming the highest price instead of the lowest
generate_improvement_suggestions_max_price(analysis, user_needs) ==
  LET over == analysis.over_budget_products
      short == analysis.insufficient_specs
      price_part ==
        IF over # <<>>
        THEN << Suggestion("raise_budget", "price",
                  MaxOf([i \in 1..Len(over) |-> PriceOf(over[i])])) >>
        ELSE <<>>
      spec_part ==
        [j \in 1..Len(short) |->
           Suggestion("lower_need", short[j][1],
             MaxOf([i \in 1..Len(short[j][2]) |->
                      Get(SpecsOf(short[j][2][i]), short[j][1], R(0))]))]
  IN  [analysis EXCEPT !.suggestions = @ \o price_part \o spec_part]

\* the budget suggestion made without testing over_budget_products
generate_improvement_suggestions_unguarded(analysis, user_needs) ==
  LET over == analysis.over_budget_products
      short == analysis.insufficient_specs
      price_part ==
        << Suggestion("raise_budget", "price",
             IF over # <<>>
             THEN MinOf([i \in 1..Len(over) |-> PriceOf(over[i])])
             ELSE R(0)) >>
      spec_part ==
        [j \in 1..Len(short) |->
           Suggestion("lower_need", short[j][1],
             MaxOf([i \in 1..Len(short[j][2]) |->
                      Get(SpecsOf(short[j][2][i]), short[j][1], R(0))]))]
  IN  [analysis EXCEPT !.suggestions = @ \o price_part \o spec_part]

generate_improvement_suggestions(analysis, user_needs) ==
  LET over == analysis.over_budget_products
      short == analysis.insufficient_specs
      price_part ==
        IF over # <<>>
        THEN << Suggestion("raise_budget", "price",
                  MinOf([i \in 1..Len(over) |-> PriceOf(over[i])])) >>
        ELSE <<>>
      spec_part ==
        [j \in 1..Len(short) |->
           Suggestion("lower_need", short[j][1],
             MaxOf([i \in 1..Len(short[j][2]) |->
                      Get(SpecsOf(short[j][2][i]), short[j][1], R(0))]))]
  IN  [analysis EXCEPT !.suggestions = @ \o price_part \o spec_part]

EmptyAnalysis ==
  [over_budget_products |-> <<>>, insufficient_specs |-> <<>>,
   suggestions |-> <<>>]

analyze_no_match_reason(cfg, user_needs, user_budget, prods) ==
  generate_improvement_suggestions(
    analyze_product_mismatch(cfg, prods, user_needs, user_budget,
                             EmptyAnalysis, Len(prods)),
    user_needs)

\* ------------------------------------------------------------------------
\* RecommendationAPI: POST /api/recommend
\* ------------------------------------------------------------------------
\* a response of the handler: the HTTP status, the JSON object sent, and the
\* calls made on the engine while handling the request, in order
ApiResult(status, json, calls) ==
  [status |-> status, json |-> json, calls |-> calls]

\* one call of an engine method with its arguments and its result
EngineCall(fn, needs, budget, packages, result) ==
  [fn |-> fn, user_needs |-> needs, user_budget |-> budget,
   products |-> packages, result |-> result]

\* Optional response: <<>> stands for None
validate_recommendation_request_needs_only(request_data) ==
  IF DOMAIN request_data = {}
  THEN << ApiResult(400, [success |-> FALSE, error |-> "empty"], <<>>) >>
  ELSE IF "user_needs" \notin DOMAIN request_data
  THEN << ApiResult(400, [success |-> FALSE, error |-> "user_needs"], <<>>) >>
  ELSE <<>>

validate_recommendation_request(request_data) ==
  IF DOMAIN request_data = {}
  THEN << ApiResult(400, [success |-> FALSE, error |-> "empty"], <<>>) >>
  ELSE IF "user_needs" \notin DOMAIN request_data
  THEN << ApiResult(400, [success |-> FALSE, error |-> "user_needs"], <<>>) >>
  ELSE IF "user_budget" \notin DOMAIN request_data
  THEN << ApiResult(400, [success |-> FALSE, error |-> "user_budget"], <<>>) >>
  ELSE <<>>

\* the handler with the analysis made and attached whatever recommend found
handle_single_recommendation_always_analyze(cfg, request_data, packages) ==
  LET validation_error == validate_recommendation_request(request_data)
  IN  IF validation_error # <<>> THEN validation_error[1]
      ELSE IF ~ ({"user_needs", "user_budget"} \subseteq DOMAIN request_data)
      THEN ApiResult(500, [success |-> FALSE, error |-> "KeyError"], <<>>)
      ELSE
        LET needs == request_data.user_needs
            budget == request_data.user_budget
            recommendations == recommend(cfg, needs, budget, packages)
            analysis == analyze_no_match_reason(cfg, needs, budget, packages)
        IN  ApiResult(200,
              [success |-> TRUE, data |-> recommendations,
               analysis |-> analysis, count |-> Len(recommendations)],
              << EngineCall("recommend", needs, budget, packages,
                            recommendations),
                 EngineCall("analyze_no_match_reason", needs, budget,
                            packages, analysis) >>)

\* `except Exception` answers 500: a missing key after validation is a
\* KeyError.  packages is data_manager.get_all_packages() (no carrier filter)
handle_single_recommendation(cfg, request_data, packages) ==
  LET validation_error == validate_recommendation_request(request_data)
  IN  IF validation_error # <<>> THEN validation_error[1]
      ELSE IF ~ ({"user_needs", "user_budget"} \subseteq DOMAIN request_data)
      THEN ApiResult(500, [success |-> FALSE, error |-> "KeyError"], <<>>)
      ELSE
        LET needs == request_data.user_needs
            budget == request_data.user_budget
            recommendations == recommend(cfg, needs, budget, packages)
            first == EngineCall("recommend", needs, budget, packages,
                                recommendations)
        IN  IF recommendations = <<>>
            THEN LET analysis ==
                       analyze_no_match_reason(cfg, needs, budget, packages)
                 IN  ApiResult(200,
                       [success |-> TRUE, data |-> <<>>,
                        analysis |-> analysis, message |-> "no_match"],
                       << first,
                          EngineCall("analyze_no_match_reason", needs, budget,
                                     packages, analysis) >>)
            ELSE ApiResult(200,
                   [success |-> TRUE, data |-> recommendations,
                    count |-> Len(recommendations)],
                   << first >>)

\* ------------------------------------------------------------------------
\* RecommendationAPI: PUT /api/config
\* ------------------------------------------------------------------------
\* if 'score_weights' in request_data: config['score_weights'].update(...)
ApplyScoreWeights(cfg, request) ==
  IF "score_weights" \in DOMAIN request
  THEN [cfg EXCEPT !.score_weights = DictUpdate(@, request.score_weights)]
  ELSE cfg

\* if 'thresholds' in request_data: config['thresholds'].update(...)
ApplyThresholds(cfg, request) ==
  IF "thresholds" \in DOMAIN request
  THEN [cfg EXCEPT !.thresholds = DictUpdate(@, request.thresholds)]
  ELSE cfg

\* an update of max_recommendations that rebuilds the Config from the defaults
ApplyMaxRecommendations_rebuild(cfg, request) ==
  IF "max_recommendations" \in DOMAIN request
  THEN [get_default_config EXCEPT
          !.max_recommendations = request.max_recommendations]
  ELSE cfg

\* if 'max_recommendations' in request_data: config['max_recommendations'] = ...
ApplyMaxRecommendations(cfg, request) ==
  IF "max_recommendations" \in DOMAIN request
  THEN [cfg EXCEPT !.max_recommendations = request.max_recommendations]
  ELSE cfg

\* ------------------------------------------------------------------------
\* Inputs
\* ------------------------------------------------------------------------
Product(name, specs) == [name |-> name, specs |-> specs]

ProductPool ==
  { Product("exact", [data |-> R(30), calls |-> R(500), price |-> R(100)]),
    Product("twin", [data |-> R(30), calls |-> R(500), price |-> R(100)]),
    Product("big", [data |-> R(1000), calls |-> R(500), price |-> R(143)]),
    Product("nocalls", [data |-> R(30), price |-> R(100)]),
    Product("dear", [data |-> R(30), calls |-> R(500), price |-> R(200)]),
    Product("refund", [data |-> R(30), calls |-> R(500), price |-> R(-100)]),
    Product("unpriced", [data |-> R(30), calls |-> R(500)]) }

\* catalogs of at most MaxCatalog distinct products, in every order
Catalogs ==
  UNION { { c \in [1..n -> ProductPool] :
              \A i, j \in 1..n : i # j => c[i] # c[j] } : n \in 0..MaxCatalog }

NeedSets ==
  { << <<"data", R(30)>>, <<"calls", R(500)>> >>,
    << >>,
    << <<"calls", R(0)>>, <<"data", Q(401, 4)>> >> }

Budgets == { R(-50), R(150) }

EmptyRequest == [k \in {} |-> 0]

\* bodies of PUT /api/config: each carries only some keys of the Config
ConfigRequests ==
  { [score_weights |-> [usage_match |-> Q(1, 2)]],
    [thresholds |-> [budget_tolerance |-> R(2)]],
    [max_recommendations |-> 1],
    [max_recommendations |-> -1] }

\* ------------------------------------------------------------------------
\* State
\* ------------------------------------------------------------------------
VARIABLES
  config,        \* engine.config
  user_needs,    \* the needs of the caller
  user_budget,   \* the budget of the caller
  products,      \* the catalog list handed to the engine
  request_data,  \* request_data of the thread inside _handle_config_update
  response,      \* what the operation that completed last returned
  previous,      \* what the recommend call just before the last one returned
  rec_pc,        \* position of the thread inside engine.recommend
  rec_index,     \* index of the product the loop of recommend evaluates next
  rec_list,      \* the local list `recommendations` of recommend
  upd_pc,        \* position of the thread inside _handle_config_update
  upd_request,   \* request_data of the config update in progress
  upd_before,    \* history: engine.config when that update started
  seen,          \* history: the Config values the running recommend has read
  torn           \* history: the running recommend read a half-applied update

engineVars == <<config, user_needs, user_budget, products, request_data,
                response, previous>>

threadVars == <<rec_pc, rec_index, rec_list, upd_pc, upd_request, upd_before,
                seen, torn>>

vars == <<config, user_needs, user_budget, products, request_data, response,
          previous, rec_pc, rec_index, rec_list, upd_pc, upd_request,
          upd_before, seen, torn>>

Response(op, arg, data) == [op |-> op, arg |-> arg, data |-> data]

NoPrevious == [valid |-> FALSE, data |-> <<>>]

Init ==
  /\ config = get_default_config
  /\ user_needs \in NeedSets
  /\ user_budget \in Budgets
  /\ products \in Catalogs
  /\ request_data = EmptyRequest
  /\ response = Response("init", 0, <<>>)
  /\ previous = NoPrevious
  /\ rec_pc = "idle"
  /\ rec_index = 0
  /\ rec_list = <<>>
  /\ upd_pc = "idle"
  /\ upd_request = EmptyRequest
  /\ upd_before = get_default_config
  /\ seen = {}
  /\ torn = FALSE

\* ------------------------------------------------------------------------
\* Operations, each run to completion (one caller at a time)
\* ------------------------------------------------------------------------
\* a recommend that reorders the caller's list in place (products.reverse())
Recommend_in_place ==
  /\ response' = Response("recommend", 0,
                   recommend(config, user_needs, user_budget, products))
  /\ previous' = IF response.op = "recommend"
                 THEN [valid |-> TRUE, data |-> response.data]
                 ELSE NoPrevious
  /\ products' = [i \in 1..Len(products) |-> products[Len(products) + 1 - i]]
  /\ UNCHANGED <<config, user_needs, user_budget, request_data>>
  /\ UNCHANGED threadVars

\* engine.recommend(user_needs, user_budget, products)
Recommend ==
  /\ response' = Response("recommend", 0,
                   recommend(config, user_needs, user_budget, products))
  /\ previous' = IF response.op = "recommend"
                 THEN [valid |-> TRUE, data |-> response.data]
                 ELSE NoPrevious
  /\ UNCHANGED <<config, user_needs, user_budget, products, request_data>>
  /\ UNCHANGED threadVars

\* engine.calculate_usage_score(user_needs, products[i]["specs"])
CalculateUsageScore ==
  \E i \in 1..Len(products) :
    /\ response' = Response("calculate_usage_score", i,
                     calculate_usage_score(config, user_needs,
                       SpecsOf(products[i])))
    /\ previous' = NoPrevious
    /\ UNCHANGED <<config, user_needs, user_budget, products, request_data>>
    /\ UNCHANGED threadVars

\* engine.calculate_price_score(user_budget, price of products[i])
CalculatePriceScore ==
  \E i \in 1..Len(products) :
    /\ response' = Response("calculate_price_score", i,
                     calculate_price_score(user_budget, PriceOf(products[i])))
    /\ previous' = NoPrevious
    /\ UNCHANGED <<config, user_needs, user_budget, products, request_data>>
    /\ UNCHANGED threadVars

\* engine.analyze_no_match_reason(user_needs, user_budget, products)
AnalyzeNoMatchReason ==
  /\ response' = Response("analyze_no_match_reason", 0,
                   analyze_no_match_reason(config, user_needs, user_budget,
                                           products))
  /\ previous' = NoPrevious
  /\ UNCHANGED <<config, user_needs, user_budget, products, request_data>>
  /\ UNCHANGED threadVars

\* engine.generate_match_reason(user_needs, user_budget, products[i])
GenerateMatchReason ==
  \E i \in 1..Len(products) :
    /\ response' = Response("generate_match_reason", i,
                     generate_match_reason(config, user_needs, user_budget,
                                           products[i]))
    /\ previous' = NoPrevious
    /\ UNCHANGED <<config, user_needs, user_budget, products, request_data>>
    /\ UNCHANGED threadVars

\* the Config once every branch of _handle_config_update has run
UpdatedConfig(cfg, request) ==
  ApplyMaxRecommendations(
    ApplyThresholds(ApplyScoreWeights(cfg, request), request), request)

\* RecommendationAPI._handle_config_update
HandleConfigUpdate ==
  \E request \in ConfigRequests :
    /\ config' = UpdatedConfig(config, request)
    /\ response' = Response("config_update", request, config')
    /\ previous' = NoPrevious
    /\ UNCHANGED <<user_needs, user_budget, products, request_data>>
    /\ UNCHANGED threadVars

Next ==
  \/ Recommend
  \/ CalculateUsageScore
  \/ CalculatePriceScore
  \/ AnalyzeNoMatchReason
  \/ GenerateMatchReason
  \/ HandleConfigUpdate

Spec == Init /\ [][Next]_vars

\* JSON bodies of POST /api/recommend built from the needs and the budget
RecommendationBodies(needs, budget) ==
  { EmptyRequest,
    [user_needs |-> needs],
    [user_budget |-> budget],
    [user_needs |-> needs, user_budget |-> budget] }

HandleSingleRecommendation ==
  \E body \in RecommendationBodies(user_needs, user_budget) :
    /\ response' = Response("api_recommend", body,
                     handle_single_recommendation(config, body, products))
    /\ previous' = NoPrevious
    /\ UNCHANGED <<config, user_needs, user_budget, products, request_data>>
    /\ UNCHANGED threadVars

NextApi ==
  \/ HandleSingleRecommendation
  \/ HandleConfigUpdate

SpecApi == Init /\ [][NextApi]_vars

\* ------------------------------------------------------------------------
\* Two request threads of the Flask server: one inside engine.recommend,
\* one inside _handle_config_update.  Neither takes a lock.  A step of the
\* recommend thread is the evaluation of one product (or the final sort and
\* slice) against engine.config as it is at that moment; a step of the
\* update thread is one of the three branches of the handler.
\* ------------------------------------------------------------------------
ConcurrentRequests ==
  { [max_recommendations |-> 1],
    [score_weights |-> [usage_match |-> Q(1, 2), price_advantage |-> Q(1, 2)],
     thresholds |-> [budget_tolerance |-> R(2), perfect_match_ratio |-> R(1)],
     max_recommendations |-> 1] }

InitConcurrent ==
  /\ Init
  /\ user_needs = << <<"data", R(30)>>, <<"calls", R(500)>> >>
  /\ user_budget = R(150)
  /\ Len(products) = MaxCatalog

\* a read of engine.config that is neither the Config before the update in
\* progress nor the Config after it
TornRead ==
  /\ upd_pc # "idle"
  /\ config # upd_before
  /\ config # UpdatedConfig(upd_before, upd_request)

\* recommend: recommendations = []
RecommendCall ==
  /\ rec_pc = "idle"
  /\ rec_pc' = "loop"
  /\ rec_index' = 1
  /\ rec_list' = <<>>
  /\ seen' = {}
  /\ torn' = FALSE
  /\ UNCHANGED engineVars
  /\ UNCHANGED <<upd_pc, upd_request, upd_before>>

\* recommend: one iteration of `for product in products`
RecommendLoop ==
  /\ rec_pc = "loop"
  /\ rec_index <= Len(products)
  /\ rec_list' = rec_list \o evaluate_single_product(config, user_needs,
                                user_budget, products[rec_index])
  /\ rec_index' = rec_index + 1
  /\ seen' = seen \cup {config}
  /\ torn' = (torn \/ TornRead)
  /\ UNCHANGED rec_pc
  /\ UNCHANGED engineVars
  /\ UNCHANGED <<upd_pc, upd_request, upd_before>>

\* recommend: return self._sort_and_limit_recommendations(recommendations)
RecommendReturn ==
  /\ rec_pc = "loop"
  /\ rec_index > Len(products)
  /\ response' = Response("recommend", 0,
                   sort_and_limit_recommendations(config, rec_list))
  /\ previous' = NoPrevious
  /\ rec_pc' = "idle"
  /\ seen' = seen \cup {config}
  /\ torn' = (torn \/ TornRead)
  /\ UNCHANGED <<config, user_needs, user_budget, products, request_data>>
  /\ UNCHANGED <<rec_index, rec_list, upd_pc, upd_request, upd_before>>

\* _handle_config_update: request_data = request.get_json()
UpdateCall ==
  \E request \in ConcurrentRequests :
    /\ upd_pc = "idle"
    /\ upd_pc' = "score_weights"
    /\ upd_request' = request
    /\ upd_before' = config
    /\ request_data' = request
    /\ UNCHANGED <<config, user_needs, user_budget, products, response,
                   previous>>
    /\ UNCHANGED <<rec_pc, rec_index, rec_list, seen, torn>>

\* _handle_config_update: the 'score_weights' branch
UpdateScoreWeights ==
  /\ upd_pc = "score_weights"
  /\ config' = ApplyScoreWeights(config, upd_request)
  /\ upd_pc' = "thresholds"
  /\ UNCHANGED <<user_needs, user_budget, products, request_data, response,
                 previous>>
  /\ UNCHANGED <<rec_pc, rec_index, rec_list, upd_request, upd_before, seen,
                 torn>>

\* _handle_config_update: the 'thresholds' branch
UpdateThresholds ==
  /\ upd_pc = "thresholds"
  /\ config' = ApplyThresholds(config, upd_request)
  /\ upd_pc' = "max_recommendations"
  /\ UNCHANGED <<user_needs, user_budget, products, request_data, response,
                 previous>>
  /\ UNCHANGED <<rec_pc, rec_index, rec_list, upd_request, upd_before, seen,
                 torn>>

\* _handle_config_update: the 'max_recommendations' branch and the return
UpdateMaxRecommendations ==
  /\ upd_pc = "max_recommendations"
  /\ config' = ApplyMaxRecommendations(config, upd_request)
  /\ upd_pc' = "idle"
  /\ response' = Response("config_update", 0, config')
  /\ previous' = NoPrevious
  /\ UNCHANGED <<user_needs, user_budget, products, request_data>>
  /\ UNCHANGED <<rec_pc, rec_index, rec_list, upd_request, upd_before, seen,
                 torn>>

NextConcurrent ==
  \/ RecommendCall
  \/ RecommendLoop
  \/ RecommendReturn
  \/ UpdateCall
  \/ UpdateScoreWeights
  \/ UpdateThresholds
  \/ UpdateMaxRecommendations

SpecConcurrent == InitConcurrent /\ [][NextConcurrent]_vars

\* ------------------------------------------------------------------------
\* Properties
\* ------------------------------------------------------------------------
AfterRecommend == response.op = "recommend"

InCatalog(p) == \E i \in 1..Len(products) : products[i] = p

PositionOf(p) == CHOOSE i \in 1..Len(products) : products[i] = p

WithinTolerance(p) ==
  RLe(PriceOf(p), RMul(user_budget, config.thresholds.budget_tolerance))

Eligible(p) ==
  check_basic_requirements(config, user_needs, SpecsOf(p), user_budget,
                           PriceOf(p))

\* C1: every Recommendation returned by recommend refers to a catalog
\* product for which check_basic_requirements is true; a product whose price
\* is greater than budget * budget_tolerance never appears in the output.
C1_OutputIsEligible ==
  AfterRecommend =>
    \A i \in 1..Len(response.data) :
      LET p == response.data[i].product
      IN  /\ InCatalog(p)
          /\ Eligible(p)
          /\ WithinTolerance(p)

\* recommend returned something while the catalog held a product over the
\* tolerated price
C1_Witness ==
  /\ AfterRecommend
  /\ response.data # <<>>
  /\ \E i \in 1..Len(products) : ~ WithinTolerance(products[i])

\* C2: the list returned by recommend is in non-increasing order of the
\* rounded score, and recommendations of equal score are in the order of
\* their products in the catalog.
C2_SortedStable ==
  AfterRecommend =>
    \A i, j \in 1..Len(response.data) :
      i < j =>
        /\ RGe(response.data[i].score, response.data[j].score)
        /\ response.data[i].score = response.data[j].score
             => PositionOf(response.data[i].product)
                  < PositionOf(response.data[j].product)

\* recommend returned two recommendations of equal score
C2_Witness ==
  /\ AfterRecommend
  /\ \E i, j \in 1..Len(response.data) :
       i < j /\ response.data[i].score = response.data[j].score

\* C3: the number of Recommendations returned by recommend is at most
\* max_recommendations.
C3_BoundedLength ==
  AfterRecommend => Len(response.data) <= config.max_recommendations

\* C4: the eligibility check rejects a product when an attribute of needs
\* with a needed value > 0 is absent from its spec (absent counts as 0), and
\* when the attribute is present but less than the needed value.
C4_AbsentAttributeRejected ==
  AfterRecommend =>
    \A i \in 1..Len(response.data) :
      \A n \in 1..Len(user_needs) :
        ~ RLt(Get(SpecsOf(response.data[i].product), user_needs[n][1], R(0)),
              user_needs[n][2])

\* C5: an attribute requested with a need > 0 and absent from the spec
\* counts as a satisfaction of 0, so the usage score of the product is
\* strictly lower than with that attribute exactly met.
C5_AbsentAttributeLowersScore ==
  response.op = "calculate_usage_score" =>
    LET specs == SpecsOf(products[response.arg])
    IN  \A n \in 1..Len(user_needs) :
          (RGt(user_needs[n][2], R(0)) /\ user_needs[n][1] \notin DOMAIN specs)
            => RLt(response.data,
                   calculate_usage_score(config, user_needs,
                     DictUpdate(specs,
                       [k \in {user_needs[n][1]} |-> user_needs[n][2]])))

C7_ScoresNonNegative ==
  /\ response.op = "calculate_usage_score" => RGe(response.data, R(0))
  /\ response.op = "calculate_price_score" => RGe(response.data, R(0))

\* C7 amended: calculate_usage_score never returns a negative value;
\* calculate_price_score never returns a negative value when the budget is
\* not negative, whatever the price.
C7_ScoresNonNegativeForBudget ==
  /\ response.op = "calculate_usage_score" => RGe(response.data, R(0))
  /\ (response.op = "calculate_price_score" /\ RGe(user_budget, R(0)))
       => RGe(response.data, R(0))
  /\ AfterRecommend =>
       \A i \in 1..Len(response.data) :
         /\ RGe(response.data[i].usage_score, R(0))
         /\ RGe(user_budget, R(0)) => RGe(response.data[i].price_score, R(0))

\* calculate_price_score was called with a budget >= 0 and a negative price
C7_Witness ==
  /\ response.op = "calculate_price_score"
  /\ RGe(user_budget, R(0))
  /\ RLt(PriceOf(products[response.arg]), R(0))

\* the value the update writes for sub-key k of a section, if it has one
Provided(request, section, k) ==
  /\ section \in DOMAIN request
  /\ k \in DOMAIN request[section]

\* C8: a Config update merges exactly the keys it provides: every provided
\* key takes the provided value, every other key of score_weights, of
\* thresholds and max_recommendations keeps its value.
C8_PartialUpdateMerges ==
  [][response'.op = "config_update" =>
       /\ \A section \in {"score_weights", "thresholds"} :
            /\ DOMAIN config'[section] =
                 DOMAIN config[section]
                   \cup (IF section \in DOMAIN response'.arg
                         THEN DOMAIN response'.arg[section] ELSE {})
            /\ \A k \in DOMAIN config'[section] :
                 config'[section][k] =
                   IF Provided(response'.arg, section, k)
                   THEN response'.arg[section][k]
                   ELSE config[section][k]
       /\ config'.max_recommendations =
            IF "max_recommendations" \in DOMAIN response'.arg
            THEN response'.arg.max_recommendations
            ELSE config.max_recommendations]_vars

\* an update that carries one key only was applied to a Config in which
\* another key had already been changed, and that other key kept its value
C8_Witness ==
  /\ response.op = "config_update"
  /\ DOMAIN response.arg = {"max_recommendations"}
  /\ config.score_weights.usage_match # get_default_config.score_weights.usage_match
  /\ config.thresholds.budget_tolerance
       # get_default_config.thresholds.budget_tolerance

\* C9: a recommend call running concurrently with a Config update reads one
\* Config only, the complete old one or the complete new one, for all its
\* products and for the truncation.
C9_NoTornConfig ==
  /\ ~ torn
  /\ Cardinality(seen) <= 1

\* C10: after any sequence of Config updates the Config satisfies its
\* data-model constraints.
C10_ConfigValid ==
  /\ RGe(config.thresholds.budget_tolerance, R(1))
  /\ RGe(config.thresholds.waste_penalty, R(0))
  /\ RGe(config.thresholds.perfect_match_ratio, R(1))
  /\ RGe(config.score_weights.usage_match, R(0))
  /\ RGe(config.score_weights.price_advantage, R(0))
  /\ config.max_recommendations \in Nat \ {0}

\* sum of the numbers f[x], x in S
RECURSIVE SumOver(_, _)
SumOver(f, S) ==
  IF S = {} THEN R(0)
  ELSE LET x == CHOOSE y \in S : TRUE
       IN  RAdd(f[x], SumOver(f, S \ {x}))

\* r is x rounded to 2 decimal places: a multiple of 1/100 at most 1/200 away
IsRounded2(r, x) ==
  /\ 100 % r[2] = 0
  /\ RLe(RSub(r, x), Q(1, 200))
  /\ RLe(RSub(x, r), Q(1, 200))

\* C11: calculate_usage_score = max(avgScore - avgPenalty * waste_penalty, 0)
\* with avgScore the mean over the attributes in both needs and spec of
\* min(spec/need, 2.0) (1.0 when need is 0), 0 when none matches, and
\* avgPenalty the mean of (spec - need)/need over the matched attributes
\* with need > 0 and spec > need, 0 when there are none.
C11_UsageScoreFormula ==
  response.op = "calculate_usage_score" =>
    LET specs == SpecsOf(products[response.arg])
        need(n) == user_needs[n][2]
        offer(n) == specs[user_needs[n][1]]
        M == { n \in 1..Len(user_needs) : user_needs[n][1] \in DOMAIN specs }
        W == { n \in M : RGt(need(n), R(0)) /\ RGt(offer(n), need(n)) }
        sat == [n \in M |-> IF RGt(need(n), R(0))
                            THEN RMin(RDiv(offer(n), need(n)), R(2))
                            ELSE R(1)]
        waste == [n \in W |-> RDiv(RSub(offer(n), need(n)), need(n))]
        avgScore == IF M = {} THEN R(0)
                    ELSE RDiv(SumOver(sat, M), R(Cardinality(M)))
        avgPenalty == IF W = {} THEN R(0)
                      ELSE RDiv(SumOver(waste, W), R(Cardinality(W)))
    IN  response.data =
          RMax(RSub(avgScore,
                    RMul(avgPenalty, config.thresholds.waste_penalty)), R(0))

\* calculate_usage_score was called on a spec that offers more than twice a
\* positive need, next to a need of 0, and returned a positive score
C11_Witness ==
  /\ response.op = "calculate_usage_score"
  /\ RGt(response.data, R(0))
  /\ \E n \in 1..Len(user_needs) : user_needs[n][2] = R(0)
  /\ \E n \in 1..Len(user_needs) :
       /\ RGt(user_needs[n][2], R(0))
       /\ RGt(Get(SpecsOf(products[response.arg]), user_needs[n][1], R(0)),
              RMul(R(2), user_needs[n][2]))

\* C12: calculate_price_score returns budget / price when price > 0 and 0
\* when price <= 0.
C12_PriceScoreFormula ==
  response.op = "calculate_price_score" =>
    LET price == PriceOf(products[response.arg])
    IN  IF RGt(price, R(0))
        THEN RMul(response.data, price) = user_budget
        ELSE response.data = R(0)

\* calculate_price_score was called with a price of 0
C12_Witness ==
  /\ response.op = "calculate_price_score"
  /\ PriceOf(products[response.arg]) = R(0)

\* C13: in every Recommendation, score is usage * usage_match + price *
\* price_advantage of the unrounded scores, rounded to 2 decimal places, and
\* usage_score and price_score are the unrounded scores rounded to 2 places.
C13_RoundedScores ==
  AfterRecommend =>
    \A i \in 1..Len(response.data) :
      LET rec == response.data[i]
          usage == calculate_usage_score(config, user_needs,
                                         SpecsOf(rec.product))
          price == calculate_price_score(user_budget, PriceOf(rec.product))
          weighted ==
            RAdd(RMul(usage, config.score_weights.usage_match),
                 RMul(price, config.score_weights.price_advantage))
      IN  /\ IsRounded2(rec.score, weighted)
          /\ IsRounded2(rec.usage_score, usage)
          /\ IsRounded2(rec.price_score, price)

\* recommend returned a product whose price score has more than 2 decimals
C13_Witness ==
  /\ AfterRecommend
  /\ \E i \in 1..Len(response.data) :
       response.data[i].price_score
         # calculate_price_score(user_budget,
                                 PriceOf(response.data[i].product))

\* the spec of p equals the needs on every requested attribute, all needs > 0
ExactMatch(p) ==
  \A n \in 1..Len(user_needs) :
    /\ RGt(user_needs[n][2], R(0))
    /\ user_needs[n][1] \in DOMAIN SpecsOf(p)
    /\ SpecsOf(p)[user_needs[n][1]] = user_needs[n][2]

\* the recommendations of the last recommend call that refer to product p
RecsOf(p) == SelectSeq(response.data, LAMBDA rec : rec.product = p)

HasSavesClause(rec, amount) ==
  \E j \in 1..Len(rec.match_reason) :
    /\ rec.match_reason[j].kind = "saves"
    /\ rec.match_reason[j].amount = amount

\* C14 (as stated): under the default Config and a catalog no larger than
\* max_recommendations, a product whose spec equals the needs on every
\* requested attribute and whose price is at most budget - 20 is eligible and
\* is in recommend's output with usage_score 1, price_score budget / price
\* and a 'saves' clause in its match_reason.
C14_ExactMatchScenario ==
  (/\ AfterRecommend
   /\ config = get_default_config
   /\ Len(products) <= config.max_recommendations) =>
    \A i \in 1..Len(products) :
      LET p == products[i]
      IN  (ExactMatch(p) /\ RLe(PriceOf(p), RSub(user_budget, R(20)))) =>
            /\ Eligible(p)
            /\ RecsOf(p) # <<>>
            /\ \A j \in 1..Len(RecsOf(p)) :
                 /\ RecsOf(p)[j].usage_score = R(1)
                 /\ RMul(RecsOf(p)[j].price_score, PriceOf(p)) = user_budget
                 /\ HasSavesClause(RecsOf(p)[j],
                                   RSub(user_budget, PriceOf(p)))

\* C14 (amended): the same for at least one requested attribute and a price
\* that is positive, with price_score being budget / price rounded to 2
\* decimal places.
C14_ExactMatchPositivePrice ==
  (/\ AfterRecommend
   /\ config = get_default_config
   /\ Len(products) <= config.max_recommendations) =>
    \A i \in 1..Len(products) :
      LET p == products[i]
      IN  (/\ user_needs # <<>>
           /\ ExactMatch(p)
           /\ RGt(PriceOf(p), R(0))
           /\ RLe(PriceOf(p), RSub(user_budget, R(20)))) =>
            /\ Eligible(p)
            /\ RecsOf(p) # <<>>
            /\ \A j \in 1..Len(RecsOf(p)) :
                 /\ RecsOf(p)[j].usage_score = R(1)
                 /\ IsRounded2(RecsOf(p)[j].price_score,
                               RDiv(user_budget, PriceOf(p)))
                 /\ HasSavesClause(RecsOf(p)[j],
                                   RSub(user_budget, PriceOf(p)))

\* recommend ran under the default Config on a catalog holding an exact match
\* of non-empty needs priced above 0 and at most budget - 20
C14_Witness ==
  /\ AfterRecommend
  /\ config = get_default_config
  /\ user_needs # <<>>
  /\ \E i \in 1..Len(products) :
       /\ ExactMatch(products[i])
       /\ RGt(PriceOf(products[i]), R(0))
       /\ RLe(PriceOf(products[i]), RSub(user_budget, R(20)))

AfterAnalysis == response.op = "analyze_no_match_reason"

\* every requested attribute of p (absent counted as 0) is >= the need
SpecsSatisfy(p) ==
  \A n \in 1..Len(user_needs) :
    RGe(Get(SpecsOf(p), user_needs[n][1], R(0)), user_needs[n][2])

\* C15: over_budget_products is exactly the catalog products, in catalog
\* order, whose requested attributes (absent counted as 0) are all >= the
\* need and whose price is > budget * budget_tolerance; when such a product
\* is the only one in the catalog, recommend returns the empty list.
C15_OverBudgetProducts ==
  AfterAnalysis =>
    /\ response.data.over_budget_products =
         SelectSeq(products,
                   LAMBDA p : SpecsSatisfy(p) /\ ~WithinTolerance(p))
    /\ (Len(products) = 1 /\ response.data.over_budget_products = products)
         => recommend(config, user_needs, user_budget, products) = <<>>

\* the analysis ran on a catalog whose only product is over budget
C15_Witness ==
  /\ AfterAnalysis
  /\ Len(products) = 1
  /\ response.data.over_budget_products = products

\* the products recorded under key K of insufficient_specs, <<>> without K
InsufficientFor(K) ==
  LET short == response.data.insufficient_specs
  IN  IF \E j \in 1..Len(short) : short[j][1] = K
      THEN short[CHOOSE j \in 1..Len(short) : short[j][1] = K][2]
      ELSE <<>>

\* C16: for every attribute K in needs, insufficient_specs[K] is exactly the
\* catalog products, in catalog order, priced <= budget * budget_tolerance
\* whose spec value for K (absent counted as 0) is less than the need; K is a
\* key only when that list is non-empty, and every such product is
\* ineligible for recommend.
C16_InsufficientSpecs ==
  AfterAnalysis =>
    /\ \A j \in 1..Len(response.data.insufficient_specs) :
         /\ response.data.insufficient_specs[j][2] # <<>>
         /\ \E n \in 1..Len(user_needs) :
              user_needs[n][1] = response.data.insufficient_specs[j][1]
    /\ \A n \in 1..Len(user_needs) :
         LET K == user_needs[n][1]
         IN  /\ InsufficientFor(K) =
                  SelectSeq(products,
                    LAMBDA p : /\ WithinTolerance(p)
                               /\ RLt(Get(SpecsOf(p), K, R(0)),
                                      user_needs[n][2]))
             /\ \A i \in 1..Len(InsufficientFor(K)) :
                  ~Eligible(InsufficientFor(K)[i])

SuggestionsOfKind(kind) ==
  SelectSeq(response.data.suggestions, LAMBDA sg : sg.kind = kind)

\* amount is the least (greatest) of the numbers of the non-empty sequence s
IsMinimumOf(amount, s) ==
  /\ \E i \in 1..Len(s) : s[i] = amount
  /\ \A i \in 1..Len(s) : RLe(amount, s[i])

IsMaximumOf(amount, s) ==
  /\ \E i \in 1..Len(s) : s[i] = amount
  /\ \A i \in 1..Len(s) : RGe(amount, s[i])

\* C17: the suggestions hold a raise-the-budget suggestion iff
\* over_budget_products is non-empty, its amount being the minimum price
\* among them; one lower-the-need suggestion per key of insufficient_specs
\* and no other, its amount being the maximum spec value of that attribute
\* (absent counted as 0) among the products listed for it; the budget
\* suggestion comes first.
C17_Suggestions ==
  AfterAnalysis =>
    LET over == response.data.over_budget_products
        short == response.data.insufficient_specs
        all == response.data.suggestions
        raise == SuggestionsOfKind("raise_budget")
        lower == SuggestionsOfKind("lower_need")
    IN  /\ Len(all) = Len(raise) + Len(lower)
        /\ Len(raise) = IF over # <<>> THEN 1 ELSE 0
        /\ over # <<>> =>
             /\ all[1].kind = "raise_budget"
             /\ IsMinimumOf(all[1].amount,
                            [i \in 1..Len(over) |-> PriceOf(over[i])])
        /\ Len(lower) = Len(short)
        /\ \A j \in 1..Len(short) :
             \E k \in 1..Len(lower) :
               /\ lower[k].key = short[j][1]
               /\ IsMaximumOf(lower[k].amount,
                    [i \in 1..Len(short[j][2]) |->
                       Get(SpecsOf(short[j][2][i]), short[j][1], R(0))])

\* the analysis found an over-budget product next to an insufficient one
C17_Witness ==
  /\ AfterAnalysis
  /\ response.data.over_budget_products # <<>>
  /\ response.data.insufficient_specs # <<>>

\* C18: analyze_no_match_reason on an empty product list returns a Diagnosis
\* with over_budget_products, insufficient_specs and suggestions all empty,
\* for any needs and budget.
C18_EmptyCatalogAnalysis ==
  (AfterAnalysis /\ products = <<>>) =>
    /\ response.data.over_budget_products = <<>>
    /\ response.data.insufficient_specs = <<>>
    /\ response.data.suggestions = <<>>

\* the analysis ran on an empty product list
C18_Witness == AfterAnalysis /\ products = <<>>

\* p has neither specs.price nor a top-level price
Unpriced(p) == "price" \notin DOMAIN SpecsOf(p) /\ "price" \notin DOMAIN p

\* the attributes that p has are all >= the need (the non-budget part of
\* check_basic_requirements)
PresentSpecsSuffice(p) ==
  \A n \in 1..Len(user_needs) :
    user_needs[n][1] \in DOMAIN SpecsOf(p) =>
      RGe(SpecsOf(p)[user_needs[n][1]], user_needs[n][2])

\* C19: a product with no price at all is evaluated with price 0: for every
\* non-negative budget it passes the budget part of the eligibility check
\* (it is eligible, and recommended when the list is not cut, as soon as its
\* attributes suffice), and when recommended it has price_score 0.
C19_UnpricedProduct ==
  AfterRecommend =>
    \A i \in 1..Len(products) :
      LET p == products[i]
      IN  Unpriced(p) =>
            /\ RGe(user_budget, R(0)) =>
                 /\ WithinTolerance(p)
                 /\ Eligible(p) <=> PresentSpecsSuffice(p)
                 /\ (/\ PresentSpecsSuffice(p)
                     /\ config.max_recommendations >= Len(products))
                      => RecsOf(p) # <<>>
            /\ \A j \in 1..Len(RecsOf(p)) :
                 RecsOf(p)[j].price_score = R(0)

\* recommend returned a product that has no price
C19_Witness ==
  /\ AfterRecommend
  /\ \E j \in 1..Len(response.data) : Unpriced(response.data[j].product)

AfterReason == response.op = "generate_match_reason"

\* the price clauses of the reason last generated
PriceClauses ==
  SelectSeq(response.data,
            LAMBDA c : c.kind \in {"saves", "within_budget",
                                   "over_budget_good_value"})

\* C20: the price part of generate_match_reason is a 'saves N' clause when
\* price <= budget and budget - price >= 20, a 'within budget' clause when
\* price <= budget and budget - price < 20, an 'over budget but good value'
\* clause when budget < price <= budget * budget_tolerance, and no price
\* clause otherwise; exactly one of the four cases applies.
C20_PriceReason ==
  AfterReason =>
    LET price == PriceOf(products[response.arg])
        saves == RLe(price, user_budget)
                   /\ RGe(RSub(user_budget, price), R(20))
        within == RLe(price, user_budget)
                    /\ RLt(RSub(user_budget, price), R(20))
        good == RLt(user_budget, price) /\ WithinTolerance(products[response.arg])
        none == ~saves /\ ~within /\ ~good
        One(b) == IF b THEN 1 ELSE 0
    IN  /\ One(saves) + One(within) + One(good) + One(none) = 1
        /\ saves => /\ Len(PriceClauses) = 1
                    /\ PriceClauses[1].kind = "saves"
                    /\ PriceClauses[1].amount = RSub(user_budget, price)
        /\ within => /\ Len(PriceClauses) = 1
                     /\ PriceClauses[1].kind = "within_budget"
        /\ good => /\ Len(PriceClauses) = 1
                   /\ PriceClauses[1].kind = "over_budget_good_value"
        /\ none => PriceClauses = <<>>

\* a reason was generated for a price above budget * 1.2 that the updated
\* budget_tolerance still accepts
C20_Witness ==
  /\ AfterReason
  /\ RGt(PriceOf(products[response.arg]), RMul(user_budget, Q(6, 5)))
  /\ Len(PriceClauses) = 1
  /\ PriceClauses[1].kind = "over_budget_good_value"

IsAttributeClause(c) == c.kind \in {"fully_satisfies", "surplus"}

\* the attribute clauses of reason that are about attribute K
ClausesFor(reason, K) ==
  SelectSeq(reason, LAMBDA c : IsAttributeClause(c) /\ c.key = K)

\* the attribute part of generate_match_reason, the surplus being stated
\* exactly or rounded to one decimal place
AttributeClausesAsClaimed(one_decimal) ==
  AfterReason =>
    LET specs == SpecsOf(products[response.arg])
    IN  \A n \in 1..Len(user_needs) :
          LET K == user_needs[n][1]
              needed == user_needs[n][2]
              about == ClausesFor(response.data, K)
          IN  IF K \in DOMAIN specs /\ RGe(specs[K], needed)
              THEN /\ Len(about) = 1
                   /\ IF RLe(specs[K],
                             RMul(needed, config.thresholds.perfect_match_ratio))
                      THEN about[1].kind = "fully_satisfies"
                      ELSE /\ about[1].kind = "surplus"
                           /\ about[1].amount =
                                IF one_decimal
                                THEN Format1(RSub(specs[K], needed))
                                ELSE RSub(specs[K], needed)
              ELSE about = <<>>

\* C21 (as stated): generate_match_reason emits an attribute clause for a
\* requested attribute only when it is in the spec with spec_value >=
\* needed_value: 'fully satisfies' when spec_value <= needed_value *
\* perfect_match_ratio, otherwise 'surplus' stating spec_value -
\* needed_value; an absent or insufficient attribute produces no clause.
C21_AttributeClauses == AttributeClausesAsClaimed(FALSE)

\* C21 (amended): the same, the 'surplus' clause stating spec_value -
\* needed_value rounded to one decimal place.
C21_AttributeClausesOneDecimal == AttributeClausesAsClaimed(TRUE)

\* a reason was generated with a surplus that has more than one decimal
C21_Witness ==
  /\ AfterReason
  /\ \E j \in 1..Len(response.data) :
       /\ response.data[j].kind = "surplus"
       /\ \E n \in 1..Len(user_needs) :
            /\ user_needs[n][1] = response.data[j].key
            /\ response.data[j].amount
                 # RSub(response.data[j].value, user_needs[n][2])

IsPriceClause(c) ==
  c.kind \in {"saves", "within_budget", "over_budget_good_value"}

\* the requested attributes that p has, in the iteration order of needs
PresentNeeds(p) ==
  SelectSeq(user_needs, LAMBDA kv : kv[1] \in DOMAIN SpecsOf(p))

\* C22: for every Recommendation returned by recommend, match_reason is the
\* attribute clauses in the iteration order of needs followed by the price
\* clause: exactly one price clause, last, and exactly one attribute clause
\* for each requested attribute that is present in the product's spec.
C22_ReasonOrder ==
  AfterRecommend =>
    \A i \in 1..Len(response.data) :
      LET reason == response.data[i].match_reason
          present == PresentNeeds(response.data[i].product)
      IN  /\ Len(reason) = Len(present) + 1
          /\ \A j \in 1..Len(present) :
               /\ IsAttributeClause(reason[j])
               /\ reason[j].key = present[j][1]
          /\ IsPriceClause(reason[Len(reason)])

\* recommend returned a product with clauses for two attributes and a price
C22_Witness ==
  /\ AfterRecommend
  /\ \E i \in 1..Len(response.data) :
       /\ Len(PresentNeeds(response.data[i].product)) = 2
       /\ Len(response.data[i].match_reason) = 3

AfterApiRecommend == response.op = "api_recommend"

\* the body is empty or lacks user_needs or user_budget
Incomplete(body) ==
  \/ DOMAIN body = {}
  \/ "user_needs" \notin DOMAIN body
  \/ "user_budget" \notin DOMAIN body

\* C23: a POST to /api/recommend whose JSON body is empty or lacks
\* user_needs or user_budget is answered with status 400 and success false,
\* and neither recommend nor analyze_no_match_reason is invoked for it.
C23_IncompleteBodyRejected ==
  (AfterApiRecommend /\ Incomplete(response.arg)) =>
    /\ response.data.status = 400
    /\ response.data.json.success = FALSE
    /\ response.data.calls = <<>>

\* a body that has user_needs but no user_budget was posted
C23_Witness ==
  /\ AfterApiRecommend
  /\ "user_needs" \in DOMAIN response.arg
  /\ "user_budget" \notin DOMAIN response.arg

\* C25: in the single-recommendation flow analyze_no_match_reason is invoked
\* only after recommend has returned an empty list for that request, with
\* the same needs, budget and package list; the response carries 'analysis'
\* if and only if its data list is empty, and 'count' equal to the number of
\* recommendations otherwise.
C25_AnalysisOnlyAfterEmpty ==
  AfterApiRecommend =>
    LET calls == response.data.calls
        json == response.data.json
    IN  /\ \A i \in 1..Len(calls) :
             calls[i].fn = "analyze_no_match_reason" =>
               /\ i > 1
               /\ calls[i - 1].fn = "recommend"
               /\ calls[i - 1].result = <<>>
               /\ calls[i - 1].user_needs = calls[i].user_needs
               /\ calls[i - 1].user_budget = calls[i].user_budget
               /\ calls[i - 1].products = calls[i].products
        /\ "analysis" \in DOMAIN json <=>
             ("data" \in DOMAIN json /\ json.data = <<>>)
        /\ "analysis" \in DOMAIN json =>
             \E i \in 1..Len(calls) :
               /\ calls[i].fn = "analyze_no_match_reason"
               /\ calls[i].result = json.analysis
        /\ ("data" \in DOMAIN json /\ json.data # <<>>) =>
             /\ "count" \in DOMAIN json
             /\ json.count = Len(json.data)

\* a request over a non-empty catalog was answered with an analysis
C25_Witness ==
  /\ AfterApiRecommend
  /\ products # <<>>
  /\ "analysis" \in DOMAIN response.data.json
  /\ Len(response.data.calls) = 2

\* C24: with waste_penalty >= 0, calculate_usage_score returns a value in
\* the range 0 to 2.0 inclusive for every needs and spec with non-negative
\* values: no over-provisioned attribute pushes the usage score above 2.
C24_UsageScoreRange ==
  (/\ response.op = "calculate_usage_score"
   /\ RGe(config.thresholds.waste_penalty, R(0))
   /\ \A n \in 1..Len(user_needs) :
        /\ RGe(user_needs[n][2], R(0))
        /\ RGe(Get(SpecsOf(products[response.arg]), user_needs[n][1], R(0)),
               R(0))) =>
    /\ RGe(response.data, R(0))
    /\ RLe(response.data, R(2))

\* calculate_usage_score was called on a spec that offers more than 9 times
\* a positive need
C24_Witness ==
  /\ response.op = "calculate_usage_score"
  /\ \E n \in 1..Len(user_needs) :
       /\ RGt(user_needs[n][2], R(0))
       /\ RGt(Get(SpecsOf(products[response.arg]), user_needs[n][1], R(0)),
              RMul(R(9), user_needs[n][2]))

\* the Recommendations that recommend builds for the eligible products,
\* before the sort and the slice
EligibleRecs == Evaluated(config, user_needs, user_budget, products,
                          Len(products))

\* C26: with E the number of catalog products that pass the eligibility
\* check and max_recommendations >= 1, the output of recommend has exactly
\* min(E, max_recommendations) entries, every omitted eligible product has a
\* score <= the score of every returned one, and the output is empty if and
\* only if no product is eligible.
C26_OnlyTruncationDrops ==
  (AfterRecommend /\ config.max_recommendations >= 1) =>
    LET E == Cardinality({ i \in 1..Len(products) : Eligible(products[i]) })
        out == response.data
    IN  /\ Len(out) = IF E <= config.max_recommendations
                      THEN E ELSE config.max_recommendations
        /\ \A i \in 1..Len(EligibleRecs) :
             (\A j \in 1..Len(out) :
                out[j].product # EligibleRecs[i].product) =>
               \A j \in 1..Len(out) :
                 RLe(EligibleRecs[i].score, out[j].score)
        /\ out = <<>> <=> E = 0

\* recommend left out an eligible product with a lower score because of
\* max_recommendations
C26_Witness ==
  /\ AfterRecommend
  /\ config.max_recommendations >= 1
  /\ Len(response.data) < Len(EligibleRecs)
  /\ \E i \in 1..Len(EligibleRecs) :
       RLt(EligibleRecs[i].score, response.data[1].score)

\* p is in the list s
Listed(p, s) == \E i \in 1..Len(s) : s[i] = p

\* p is in some list of insufficient_specs
ListedInsufficient(p) ==
  \E j \in 1..Len(response.data.insufficient_specs) :
    Listed(p, response.data.insufficient_specs[j][2])

\* C27: for the same needs, budget, catalog and Config, no product that
\* passes check_basic_requirements is listed in the Diagnosis, neither in
\* over_budget_products nor in any insufficient_specs list.
C27_BucketsHoldRejected ==
  AfterAnalysis =>
    \A i \in 1..Len(products) :
      Eligible(products[i]) =>
        /\ ~Listed(products[i], response.data.over_budget_products)
        /\ ~ListedInsufficient(products[i])

\* C28 (as stated): whenever recommend returns an empty list for a
\* non-empty catalog, with max_recommendations >= 1 and at least one
\* requested attribute, the analysis of the same inputs holds at least one
\* suggestion.
C28_EmptyResultExplained ==
  (/\ AfterApiRecommend
   /\ "analysis" \in DOMAIN response.data.json
   /\ products # <<>>
   /\ config.max_recommendations >= 1
   /\ user_needs # <<>>) =>
    response.data.json.analysis.suggestions # <<>>

\* C28 (amended): the same when every catalog product is priced within
\* budget * budget_tolerance or satisfies every requested attribute (absent
\* counted as 0).
C28_EmptyResultExplainedUnlessBoth ==
  (/\ AfterApiRecommend
   /\ "analysis" \in DOMAIN response.data.json
   /\ products # <<>>
   /\ config.max_recommendations >= 1
   /\ user_needs # <<>>
   /\ \A i \in 1..Len(products) :
        WithinTolerance(products[i]) \/ SpecsSatisfy(products[i])) =>
    response.data.json.analysis.suggestions # <<>>

\* a request over a non-empty catalog found nothing and was answered with
\* suggestions
C28_Witness ==
  /\ AfterApiRecommend
  /\ "analysis" \in DOMAIN response.data.json
  /\ products # <<>>
  /\ config.max_recommendations >= 1
  /\ user_needs # <<>>
  /\ response.data.json.analysis.suggestions # <<>>

\* s is t with some entries left out
RECURSIVE IsSubsequence(_, _)
IsSubsequence(s, t) ==
  IF s = <<>> THEN TRUE
  ELSE IF t = <<>> THEN FALSE
  ELSE IF Head(s) = Head(t) THEN IsSubsequence(Tail(s), Tail(t))
  ELSE IsSubsequence(s, Tail(t))

\* C30: in any Diagnosis the buckets are disjoint and duplicate-free per
\* catalog position: no catalog entry is in over_budget_products and also
\* in an insufficient_specs list, and a catalog entry appears at most once
\* in over_budget_products and at most once in each insufficient_specs[K].
C30_BucketsDisjoint ==
  AfterAnalysis =>
    /\ IsSubsequence(response.data.over_budget_products, products)
    /\ \A j \in 1..Len(response.data.insufficient_specs) :
         IsSubsequence(response.data.insufficient_specs[j][2], products)
    /\ \A i \in 1..Len(products) :
         ~ (/\ Listed(products[i], response.data.over_budget_products)
            /\ ListedInsufficient(products[i]))

\* the analysis filled over_budget_products and an insufficient_specs list
\* from a catalog of two products
C30_Witness ==
  /\ AfterAnalysis
  /\ Len(products) = 2
  /\ Len(response.data.over_budget_products) = 1
  /\ \E j \in 1..Len(response.data.insufficient_specs) :
       Len(response.data.insufficient_specs[j][2]) = 1

\* the analysis made a raise-the-budget suggestion for a budget >= 0 under
\* budget_tolerance >= 1 and max_recommendations >= 1
BudgetSuggested ==
  /\ AfterAnalysis
  /\ RGe(user_budget, R(0))
  /\ RGe(config.thresholds.budget_tolerance, R(1))
  /\ config.max_recommendations >= 1
  /\ response.data.over_budget_products # <<>>

\* the budget named by the raise-the-budget suggestion
SuggestedBudget == SuggestionsOfKind("raise_budget")[1].amount

\* recommend with the suggested budget and the same needs, catalog, Config
RecommendedAtSuggestion ==
  recommend(config, user_needs, SuggestedBudget, products)

\* C29 (as stated): if the analysis reports a non-empty
\* over_budget_products with minimum price p, then recommend(needs, p,
\* products) with the same Config returns a non-empty list that includes a
\* product of price p.
C29_BudgetSuggestionEffective ==
  BudgetSuggested =>
    /\ IsMinimumOf(SuggestedBudget,
         [i \in 1..Len(response.data.over_budget_products) |->
            PriceOf(response.data.over_budget_products[i])])
    /\ RecommendedAtSuggestion # <<>>
    /\ \E j \in 1..Len(RecommendedAtSuggestion) :
         PriceOf(RecommendedAtSuggestion[j].product) = SuggestedBudget

\* C29 (amended): the list is non-empty, and it includes a product of price
\* p when no more than max_recommendations products are eligible for
\* budget p.
C29_BudgetSuggestionEffectiveUncut ==
  BudgetSuggested =>
    /\ IsMinimumOf(SuggestedBudget,
         [i \in 1..Len(response.data.over_budget_products) |->
            PriceOf(response.data.over_budget_products[i])])
    /\ RecommendedAtSuggestion # <<>>
    /\ Len(Evaluated(config, user_needs, SuggestedBudget, products,
                     Len(products))) <= config.max_recommendations
         => \E j \in 1..Len(RecommendedAtSuggestion) :
              PriceOf(RecommendedAtSuggestion[j].product) = SuggestedBudget

\* a budget was suggested for a catalog of two products that are both
\* eligible for the suggested budget
C29_Witness ==
  /\ BudgetSuggested
  /\ Len(products) = 2
  /\ Len(RecommendedAtSuggestion) = 2

====
